---- MODULE Spec2Model ----
(***************************************************************************)
(* The poll server actions (createPoll, getPollById, submitVote,           *)
(* deletePoll, updatePoll) over the shared "polls" and "votes" tables.     *)
(*                                                                         *)
(* A handler that makes one storage call is one atomic action: the values  *)
(* it reads before that call (the CSRF cookie, the form data, the session  *)
(* user) belong to its own request.  submitVote makes three storage calls  *)
(* (fetch the poll, look for an existing vote, insert) and is split at     *)
(* each of them; a call between two of its storage calls is a row of       *)
(* inflight.                                                               *)
(*                                                                         *)
(* The client-side AuthProvider (session, user, loading) is modelled next  *)
(* to them: its effect, the completion of its getUser call, the auth       *)
(* listener's events and its cleanup.                                      *)
(***************************************************************************)
EXTENDS Integers, Sequences, FiniteSets, Bags, TLC

VARIABLES
    polls,      \* table "polls": id -> [user_id, question, options]
    nextId,     \* number of ids the polls table has handed out
    votes,      \* table "votes": a bag of [poll_id, user_id, option_index]
    inflight,   \* submitVote calls suspended at an await: a bag of
                \* [user_id, poll_id, option_index, pc]
    last,       \* the most recently returned result, with the request that
                \* produced it and the collaborators the handler called
    session,    \* AuthProvider: useState(null)
    user,       \* AuthProvider: useState(null)
    loading,    \* AuthProvider: useState(true)
    mounted,    \* the effect's flag; nothing reads it before the effect runs
    subscribed, \* the onAuthStateChange subscription is live
    getUserCall,    \* the effect's getUser(): "idle", "pending" (awaiting
                    \* supabase.auth.getUser()), "served" (the answer is on
                    \* its way back) or "done"
    data,       \* data.user of that answer
    events,     \* number of events the listener has been given
    lastEvent   \* the session of the most recent of them

dbVars == <<polls, nextId, votes, inflight, last>>

authVars == <<session, user, loading, mounted, subscribed, getUserCall, data,
              events, lastEvent>>

vars == <<dbVars, authVars>>

\* ------------------------------------------------------------------ bounds

MaxPolls == 2
MaxVotes == 2
MaxEvents == 3

\* ------------------------------------------------------------------ values

None == "none"
Unavailable == "unavailable"   \* cookies() throws

Users == {"A", "B"}
Callers == Users \cup {None}

\* What a request carries besides the action's arguments: the csrfToken
\* cookie (or a cookie store that throws) and the form data.
Forms ==
    LET csrf == { <<"t1", "t1">>, <<None, "t1">>, <<"t1", None>>,
                  <<"t1", "t2">>, <<None, None>>, <<Unavailable, "t1">> }
        body == { <<"Q1", <<"a", "b">>>>, <<"Q2", <<"a", "b", "c">>>>,
                  <<"Q1", <<"a", "", "b">>>>, <<"", <<"a", "b">>>>,
                  <<"Q1", <<"a">>>>, <<"Q1", <<"a", "">>>>, <<"Q1", <<>>>> }
    IN  { [cookie |-> c[1], field |-> c[2], question |-> b[1],
           options |-> b[2]] :
            <<c, b>> \in { x \in csrf \X body :
                            \/ x[1] = <<"t1", "t1">>
                            \/ x[2] = <<"Q1", <<"a", "b">>>>
                            \/ x[2] = <<"", <<"a", "b">>>> } }

\* deletePoll and getPollById take no form data.
NoForm(cookie, field) ==
    [cookie |-> cookie, field |-> field, question |-> None, options |-> <<>>]

Tokens == { <<f.cookie, f.field>> : f \in Forms }

IdInputs == 1..(MaxPolls + 1)
IndexInputs == (0 - 1)..3

\* The results the handlers return ({ error: ... }); Ok is { error: null }.
Ok == "ok"
InvalidCsrf == "Invalid CSRF token."
CsrfFailed == "CSRF validation failed."
NeedQuestionAndOptions == "Please provide a question and at least two options."
LoginToCreate == "You must be logged in to create a poll."
LoginToUpdate == "You must be logged in to update a poll."
LoginToVote == "You must be logged in to vote."
NotAuthenticated == "Not authenticated"
InvalidOption == "Invalid option selected."
AlreadyVoted == "You have already voted on this poll."
\* The message of the PGRST116 error .single() gives for zero or many rows.
SingleRowError == "JSON object requested, multiple (or no) rows returned"

\* ------------------------------------------------------------- pure parts

\* if (!csrfCookie || !csrfField || csrfCookie !== csrfField) return error
CsrfValidMissingOnly(cookie, field) ==
    ~(cookie = None \/ field = None)

CsrfValid(cookie, field) ==
    ~(cookie = None \/ field = None \/ cookie # field)

\* The try/catch around the CSRF check: the result it returns, or Ok to go on.
CsrfCheckFailOpen(cookie, field) ==
    IF cookie = Unavailable THEN Ok
    ELSE IF ~CsrfValid(cookie, field) THEN InvalidCsrf
    ELSE Ok

CsrfCheck(cookie, field) ==
    IF cookie = Unavailable THEN CsrfFailed
    ELSE IF ~CsrfValid(cookie, field) THEN InvalidCsrf
    ELSE Ok

\* formData.getAll("options").filter(Boolean)
FilterBooleanIdentity(options) == options

FilterBoolean(options) == SelectSeq(options, LAMBDA o : o # "")

\* if (!question || options.length < 2): options is the filtered list
InvalidOnlyIfBoth(question, options) ==
    question = "" /\ Len(options) < 2

Invalid(question, options) ==
    question = "" \/ Len(options) < 2

\* optionIndex < 0 || optionIndex >= options.length
OutOfBoundsOffByOne(optionIndex, options) ==
    optionIndex < 0 \/ optionIndex > Len(options)

OutOfBounds(optionIndex, options) ==
    optionIndex < 0 \/ optionIndex >= Len(options)

\* ------------------------------------------------------------ the storage

\* .eq("id", pollId).eq("user_id", user.id) on "polls"
OwnedMatchIdOnly(p, pollId, userId) ==
    p = pollId

OwnedMatch(p, pollId, userId) ==
    p = pollId /\ polls[p].user_id = userId

\* The owner filter is negated: the rows of the other users match.
OwnedRowsNotOwner(pollId, userId) ==
    {p \in DOMAIN polls : p = pollId /\ polls[p].user_id # userId}

OwnedRows(pollId, userId) ==
    {p \in DOMAIN polls : OwnedMatch(p, pollId, userId)}

\* .eq('id', pollId) on "polls"
IdRows(pollId) == {p \in DOMAIN polls : p = pollId}

\* .eq('poll_id', pollId).eq('user_id', user.id) on "votes"
ExistingVotesOfOthers(pollId, userId) ==
    {v \in BagToSet(votes) : v.poll_id = pollId /\ v.user_id # userId}

ExistingVotes(pollId, userId) ==
    {v \in BagToSet(votes) : v.poll_id = pollId /\ v.user_id = userId}

Sum(f, S) ==
    LET RECURSIVE sum(_)
        sum(T) == IF T = {} THEN 0
                  ELSE LET x == CHOOSE y \in T : TRUE
                       IN f[x] + sum(T \ {x})
    IN sum(S)

\* The number of rows of "votes" the filter selects.
ExistingCount(pollId, userId) ==
    LET rows == ExistingVotes(pollId, userId)
    IN Sum([v \in rows |-> CopiesIn(v, votes)], rows)

\* .maybeSingle(): no row gives no data and no error, one row gives the row,
\* several rows give no data and the error PGRST116.
MaybeSingle(n) ==
    IF n = 0 THEN [data |-> FALSE, code |-> None]
    ELSE IF n = 1 THEN [data |-> TRUE, code |-> None]
    ELSE [data |-> FALSE, code |-> "PGRST116"]

\* What last holds: the request, the result returned, the poll returned
\* (getPollById) and the collaborators called, in order.
Reply(op, caller, id, form, optionIndex, result, poll, calls) ==
    [op |-> op, caller |-> caller, id |-> id, form |-> form,
     optionIndex |-> optionIndex, result |-> result, poll |-> poll,
     calls |-> calls]

\* -------------------------------------------------------------- handlers

createPoll(caller, form) ==
    LET csrf == CsrfCheck(form.cookie, form.field)
        question == form.question
        options == FilterBoolean(form.options)
        reply(result, calls) ==
            Reply("createPoll", caller, None, form, None, result, None, calls)
    IN  IF csrf # Ok THEN
            /\ last' = reply(csrf, <<"cookies">>)
            /\ UNCHANGED <<polls, nextId, votes, inflight>>
        ELSE IF Invalid(question, options) THEN
            /\ last' = reply(NeedQuestionAndOptions, <<"cookies">>)
            /\ UNCHANGED <<polls, nextId, votes, inflight>>
        ELSE IF caller = None THEN
            /\ last' = reply(LoginToCreate, <<"cookies", "getUser">>)
            /\ UNCHANGED <<polls, nextId, votes, inflight>>
        ELSE
            /\ nextId < MaxPolls
            /\ nextId' = nextId + 1
            /\ polls' = [p \in DOMAIN polls \cup {nextId + 1} |->
                            IF p = nextId + 1
                            THEN [user_id |-> caller, question |-> question,
                                  options |-> options]
                            ELSE polls[p]]
            /\ last' = reply(Ok, <<"cookies", "getUser", "insert",
                                   "revalidatePath">>)
            /\ UNCHANGED <<votes, inflight>>

\* .eq("user_id", user.id) on "polls"
UserRowsAll(userId) == DOMAIN polls

UserRows(userId) == {p \in DOMAIN polls : polls[p].user_id = userId}

\* created_at is set by the table when the row is inserted, and ids are
\* handed out in insertion order: a larger id is a later created_at.
created_at(p) == p

\* .order("created_at", { ascending: false }): the rows, each with its id.
OrderAscending(rows) ==
    LET RECURSIVE order(_)
        order(R) == IF R = {} THEN <<>>
                    ELSE LET p == CHOOSE q \in R :
                                    \A r \in R : created_at(q) <= created_at(r)
                         IN  <<[id |-> p, row |-> polls[p]]>> \o order(R \ {p})
    IN  order(rows)

OrderDescending(rows) ==
    LET RECURSIVE order(_)
        order(R) == IF R = {} THEN <<>>
                    ELSE LET p == CHOOSE q \in R :
                                    \A r \in R : created_at(q) >= created_at(r)
                         IN  <<[id |-> p, row |-> polls[p]]>> \o order(R \ {p})
    IN  order(rows)

\* if (!user) return { polls: [], error: "Not authenticated" }
GetUserPollsNoError(caller) ==
    IF caller = None THEN [polls |-> <<>>, error |-> Ok]
    ELSE [polls |-> OrderDescending(UserRows(caller)), error |-> Ok]

GetUserPollsResult(caller) ==
    IF caller = None THEN [polls |-> <<>>, error |-> NotAuthenticated]
    ELSE [polls |-> OrderDescending(UserRows(caller)), error |-> Ok]

getUserPolls(caller) ==
    LET r == GetUserPollsResult(caller)
    IN  /\ last' = Reply("getUserPolls", caller, None, NoForm(None, None),
                         None, r.error, r.polls,
                         IF caller = None THEN <<"getUser">>
                         ELSE <<"getUser", "select">>)
        /\ UNCHANGED <<polls, nextId, votes, inflight>>

\* Fetch by id alone, then compare the owner: a foreign poll is reported
\* differently from a missing one.
GetPollByIdFetchThenCheck(caller, id) ==
    IF caller = None THEN [poll |-> None, error |-> NotAuthenticated]
    ELSE IF id \notin DOMAIN polls
         THEN [poll |-> None, error |-> SingleRowError]
    ELSE IF polls[id].user_id # caller
         THEN [poll |-> None, error |-> "Forbidden"]
    ELSE [poll |-> polls[id], error |-> Ok]

\* .single(): exactly one row, or the PGRST116 error.
GetPollByIdResult(caller, id) ==
    IF caller = None THEN [poll |-> None, error |-> NotAuthenticated]
    ELSE LET rows == OwnedRows(id, caller)
         IN  IF Cardinality(rows) = 1
             THEN [poll |-> polls[CHOOSE p \in rows : TRUE], error |-> Ok]
             ELSE [poll |-> None, error |-> SingleRowError]

getPollById(caller, id) ==
    LET r == GetPollByIdResult(caller, id)
    IN  /\ last' = Reply("getPollById", caller, id, NoForm(None, None), None,
                         r.error, r.poll,
                         IF caller = None THEN <<"getUser">>
                         ELSE <<"getUser", "select">>)
        /\ UNCHANGED <<polls, nextId, votes, inflight>>

\* deletePoll without its if (!user) test.
deletePollNoAuth(caller, id, cookie, field) ==
    /\ polls' = [p \in DOMAIN polls \ OwnedRows(id, caller) |-> polls[p]]
    /\ last' = Reply("deletePoll", caller, id, NoForm(cookie, field), None,
                     Ok, None, <<"getUser", "delete", "revalidatePath">>)
    /\ UNCHANGED <<nextId, votes, inflight>>

\* deletePoll(id) takes no form data and reads no cookie: cookie and field
\* are what the request carried.
deletePoll(caller, id, cookie, field) ==
    LET reply(result, calls) ==
            Reply("deletePoll", caller, id, NoForm(cookie, field), None,
                  result, None, calls)
    IN  IF caller = None THEN
            /\ last' = reply(NotAuthenticated, <<"getUser">>)
            /\ UNCHANGED <<polls, nextId, votes, inflight>>
        ELSE
            /\ polls' = [p \in DOMAIN polls \ OwnedRows(id, caller) |-> polls[p]]
            /\ last' = reply(Ok, <<"getUser", "delete", "revalidatePath">>)
            /\ UNCHANGED <<nextId, votes, inflight>>

updatePoll(caller, pollId, form) ==
    LET csrf == CsrfCheck(form.cookie, form.field)
        question == form.question
        options == FilterBoolean(form.options)
        reply(result, calls) ==
            Reply("updatePoll", caller, pollId, form, None, result, None, calls)
    IN  IF csrf # Ok THEN
            /\ last' = reply(csrf, <<"cookies">>)
            /\ UNCHANGED <<polls, nextId, votes, inflight>>
        ELSE IF Invalid(question, options) THEN
            /\ last' = reply(NeedQuestionAndOptions, <<"cookies">>)
            /\ UNCHANGED <<polls, nextId, votes, inflight>>
        ELSE IF caller = None THEN
            /\ last' = reply(LoginToUpdate, <<"cookies", "getUser">>)
            /\ UNCHANGED <<polls, nextId, votes, inflight>>
        ELSE
            /\ polls' = [p \in DOMAIN polls |->
                            IF p \in OwnedRows(pollId, caller)
                            THEN [polls[p] EXCEPT !.question = question,
                                                  !.options = options]
                            ELSE polls[p]]
            /\ last' = reply(Ok, <<"cookies", "getUser", "update">>)
            /\ UNCHANGED <<nextId, votes, inflight>>

\* The duplicate check runs before the bounds check: an identity that has
\* already voted is sent on to the duplicate check whatever the index.
submitVoteDuplicateFirst(caller, pollId, optionIndex) ==
    LET reply(result, calls) ==
            Reply("submitVote", caller, pollId, NoForm(None, None),
                  optionIndex, result, None, calls)
        rows == IdRows(pollId)
    IN  IF caller = None THEN
            /\ last' = reply(LoginToVote, <<"getUser">>)
            /\ UNCHANGED <<polls, nextId, votes, inflight>>
        ELSE IF Cardinality(rows) # 1 THEN
            /\ last' = reply(SingleRowError, <<"getUser", "select polls">>)
            /\ UNCHANGED <<polls, nextId, votes, inflight>>
        ELSE IF /\ ExistingCount(pollId, caller) = 0
                /\ OutOfBounds(optionIndex,
                               polls[CHOOSE p \in rows : TRUE].options) THEN
            /\ last' = reply(InvalidOption, <<"getUser", "select polls">>)
            /\ UNCHANGED <<polls, nextId, votes, inflight>>
        ELSE
            /\ BagCardinality(votes) + BagCardinality(inflight) < MaxVotes
            /\ inflight' = inflight (+) SetToBag({
                    [user_id |-> caller, poll_id |-> pollId,
                     option_index |-> optionIndex, pc |-> "checkExisting"]})
            /\ UNCHANGED <<polls, nextId, votes, last>>

\* submitVote up to its first storage call: the session user, the poll's
\* options (.single()) and the bounds of optionIndex.  Every poll the
\* handlers store has an array of options, so the Array.isArray test passes.
submitVote(caller, pollId, optionIndex) ==
    LET reply(result, calls) ==
            Reply("submitVote", caller, pollId, NoForm(None, None),
                  optionIndex, result, None, calls)
        rows == IdRows(pollId)
    IN  IF caller = None THEN
            /\ last' = reply(LoginToVote, <<"getUser">>)
            /\ UNCHANGED <<polls, nextId, votes, inflight>>
        ELSE IF Cardinality(rows) # 1 THEN
            /\ last' = reply(SingleRowError, <<"getUser", "select polls">>)
            /\ UNCHANGED <<polls, nextId, votes, inflight>>
        ELSE IF OutOfBounds(optionIndex,
                            polls[CHOOSE p \in rows : TRUE].options) THEN
            /\ last' = reply(InvalidOption, <<"getUser", "select polls">>)
            /\ UNCHANGED <<polls, nextId, votes, inflight>>
        ELSE
            /\ BagCardinality(votes) + BagCardinality(inflight) < MaxVotes
            /\ inflight' = inflight (+) SetToBag({
                    [user_id |-> caller, poll_id |-> pollId,
                     option_index |-> optionIndex, pc |-> "checkExisting"]})
            /\ UNCHANGED <<polls, nextId, votes, last>>

\* The second storage call: the existing vote of this user on this poll.
\* A PGRST116 error is ignored, any data is a duplicate.
submitVoteCheckExisting(c) ==
    LET existing == MaybeSingle(ExistingCount(c.poll_id, c.user_id))
        reply(result) ==
            Reply("submitVote", c.user_id, c.poll_id, NoForm(None, None),
                  c.option_index, result, None,
                  <<"getUser", "select polls", "select votes">>)
    IN  /\ c.pc = "checkExisting"
        /\ IF existing.code \notin {None, "PGRST116"} THEN
                /\ inflight' = inflight (-) SetToBag({c})
                /\ last' = reply(existing.code)
                /\ UNCHANGED <<polls, nextId, votes>>
           ELSE IF existing.data THEN
                /\ inflight' = inflight (-) SetToBag({c})
                /\ last' = reply(AlreadyVoted)
                /\ UNCHANGED <<polls, nextId, votes>>
           ELSE
                /\ inflight' = (inflight (-) SetToBag({c}))
                                 (+) SetToBag({[c EXCEPT !.pc = "insert"]})
                /\ UNCHANGED <<polls, nextId, votes, last>>

\* The insert is refused to the poll's owner, with the no-row error.
submitVoteInsertNotOwner(c) ==
    /\ c.pc = "insert"
    /\ inflight' = inflight (-) SetToBag({c})
    /\ IF OwnedRows(c.poll_id, c.user_id) # {} THEN
            /\ last' = Reply("submitVote", c.user_id, c.poll_id,
                             NoForm(None, None), c.option_index,
                             SingleRowError, None,
                             <<"getUser", "select polls", "select votes">>)
            /\ UNCHANGED <<polls, nextId, votes>>
       ELSE
            /\ votes' = votes (+) SetToBag({[poll_id |-> c.poll_id,
                                             user_id |-> c.user_id,
                                             option_index |-> c.option_index]})
            /\ last' = Reply("submitVote", c.user_id, c.poll_id,
                             NoForm(None, None), c.option_index, Ok, None,
                             <<"getUser", "select polls", "select votes",
                               "insert">>)
            /\ UNCHANGED <<polls, nextId>>

\* The third storage call: the insert.
submitVoteInsert(c) ==
    /\ c.pc = "insert"
    /\ votes' = votes (+) SetToBag({[poll_id |-> c.poll_id,
                                     user_id |-> c.user_id,
                                     option_index |-> c.option_index]})
    /\ inflight' = inflight (-) SetToBag({c})
    /\ last' = Reply("submitVote", c.user_id, c.poll_id, NoForm(None, None),
                     c.option_index, Ok, None,
                     <<"getUser", "select polls", "select votes", "insert">>)
    /\ UNCHANGED <<polls, nextId>>

\* ------------------------------------------------------- backend failures

\* The message of the error object a failed backend call returns
\* (userError.message, error.message, pollErr.message, existingErr.message).
ErrorMessage == "error.message"

\* A failed getUser returns the error and no user.
FailedAt == {"getUser", "storage"}

\* createPoll when getUser or the insert fails: { error: <message> }.
createPollFault(caller, form, at) ==
    LET reply(result, calls) ==
            Reply("createPoll", caller, None, form, None, result, None, calls)
    IN  /\ CsrfCheck(form.cookie, form.field) = Ok
        /\ ~Invalid(form.question, FilterBoolean(form.options))
        /\ IF at = "getUser"
           THEN last' = reply(ErrorMessage, <<"cookies", "getUser">>)
           ELSE /\ caller # None
                /\ last' = reply(ErrorMessage,
                                 <<"cookies", "getUser", "insert">>)
        /\ UNCHANGED <<polls, nextId, votes, inflight>>

\* getUserPolls does not read getUser's error: no user, "Not authenticated".
\* A failed select returns no polls and the message.
getUserPollsFault(caller, at) ==
    LET reply(result, calls) ==
            Reply("getUserPolls", caller, None, NoForm(None, None), None,
                  result, <<>>, calls)
    IN  /\ IF at = "getUser"
           THEN last' = reply(NotAuthenticated, <<"getUser">>)
           ELSE /\ caller # None
                /\ last' = reply(ErrorMessage, <<"getUser", "select">>)
        /\ UNCHANGED <<polls, nextId, votes, inflight>>

getPollByIdFault(caller, id, at) ==
    LET reply(result, calls) ==
            Reply("getPollById", caller, id, NoForm(None, None), None,
                  result, None, calls)
    IN  /\ IF at = "getUser"
           THEN last' = reply(NotAuthenticated, <<"getUser">>)
           ELSE /\ caller # None
                /\ last' = reply(ErrorMessage, <<"getUser", "select">>)
        /\ UNCHANGED <<polls, nextId, votes, inflight>>

\* A failed delete returns the message before revalidatePath.
deletePollFault(caller, id, cookie, field, at) ==
    LET reply(result, calls) ==
            Reply("deletePoll", caller, id, NoForm(cookie, field), None,
                  result, None, calls)
    IN  /\ IF at = "getUser"
           THEN last' = reply(NotAuthenticated, <<"getUser">>)
           ELSE /\ caller # None
                /\ last' = reply(ErrorMessage, <<"getUser", "delete">>)
        /\ UNCHANGED <<polls, nextId, votes, inflight>>

updatePollFault(caller, pollId, form, at) ==
    LET reply(result, calls) ==
            Reply("updatePoll", caller, pollId, form, None, result, None,
                  calls)
    IN  /\ CsrfCheck(form.cookie, form.field) = Ok
        /\ ~Invalid(form.question, FilterBoolean(form.options))
        /\ IF at = "getUser"
           THEN last' = reply(ErrorMessage, <<"cookies", "getUser">>)
           ELSE /\ caller # None
                /\ last' = reply(ErrorMessage,
                                 <<"cookies", "getUser", "update">>)
        /\ UNCHANGED <<polls, nextId, votes, inflight>>

\* submitVote does not read getUser's error either; a failed fetch of the
\* poll returns pollErr.message.
submitVoteFault(caller, pollId, optionIndex, at) ==
    LET reply(result, calls) ==
            Reply("submitVote", caller, pollId, NoForm(None, None),
                  optionIndex, result, None, calls)
    IN  /\ IF at = "getUser"
           THEN last' = reply(LoginToVote, <<"getUser">>)
           ELSE /\ caller # None
                /\ last' = reply(ErrorMessage, <<"getUser", "select polls">>)
        /\ UNCHANGED <<polls, nextId, votes, inflight>>

\* The lookup of the existing vote fails with a code other than PGRST116.
submitVoteCheckExistingFault(c) ==
    /\ c.pc = "checkExisting"
    /\ inflight' = inflight (-) SetToBag({c})
    /\ last' = Reply("submitVote", c.user_id, c.poll_id, NoForm(None, None),
                     c.option_index, ErrorMessage, None,
                     <<"getUser", "select polls", "select votes">>)
    /\ UNCHANGED <<polls, nextId, votes>>

\* The insert of the vote fails: no row is added.
submitVoteInsertFault(c) ==
    /\ c.pc = "insert"
    /\ inflight' = inflight (-) SetToBag({c})
    /\ last' = Reply("submitVote", c.user_id, c.poll_id, NoForm(None, None),
                     c.option_index, ErrorMessage, None,
                     <<"getUser", "select polls", "select votes", "insert">>)
    /\ UNCHANGED <<polls, nextId, votes>>

\* ----------------------------------------------------------- AuthProvider

\* The sessions an auth event can carry; null is None.
SessionOf(u) == IF u = "A" THEN "session of A" ELSE "session of B"

Sessions == {SessionOf(u) : u \in Users}

\* session?.user ?? null
SessionUser(s) == IF s = None THEN None
                  ELSE CHOOSE u \in Users : SessionOf(u) = s

\* The provider after its first render, before the effect has run.
InitAuth ==
    /\ session = None
    /\ user = None
    /\ loading = TRUE
    /\ mounted = FALSE
    /\ subscribed = FALSE
    /\ getUserCall = "idle"
    /\ data = None
    /\ events = 0
    /\ lastEvent = None

\* The effect: mounted = true, getUser() runs up to its await, the listener
\* is registered.
useEffect ==
    /\ getUserCall = "idle"
    /\ mounted' = TRUE
    /\ getUserCall' = "pending"
    /\ subscribed' = TRUE
    /\ UNCHANGED <<session, user, loading, data, events, lastEvent>>
    /\ UNCHANGED dbVars

\* supabase.auth.getUser() is answered with data.user = u (no user when the
\* call fails: the error is swallowed).
getUserServed(u) ==
    /\ getUserCall = "pending"
    /\ getUserCall' = "served"
    /\ data' = u
    /\ UNCHANGED <<session, user, loading, mounted, subscribed, events,
                   lastEvent>>
    /\ UNCHANGED dbVars

\* The rest of getUser after its await.
getUser ==
    /\ getUserCall = "served"
    /\ getUserCall' = "done"
    /\ IF mounted
       THEN /\ user' = data
            /\ session' = None
            /\ loading' = FALSE
       ELSE UNCHANGED <<user, session, loading>>
    /\ UNCHANGED <<mounted, subscribed, data, events, lastEvent>>
    /\ UNCHANGED dbVars

\* The listener sets loading to false as well.
onAuthStateChangeSetsLoading(s) ==
    /\ subscribed
    /\ events < MaxEvents
    /\ session' = s
    /\ user' = SessionUser(s)
    /\ loading' = FALSE
    /\ events' = events + 1
    /\ lastEvent' = s
    /\ UNCHANGED <<mounted, subscribed, getUserCall, data>>
    /\ UNCHANGED dbVars

\* The listener, given an event with session s (None after a sign-out).
onAuthStateChange(s) ==
    /\ subscribed
    /\ events < MaxEvents
    /\ session' = s
    /\ user' = SessionUser(s)
    /\ events' = events + 1
    /\ lastEvent' = s
    /\ UNCHANGED <<loading, mounted, subscribed, getUserCall, data>>
    /\ UNCHANGED dbVars

\* The effect's cleanup.
cleanup ==
    /\ mounted
    /\ mounted' = FALSE
    /\ subscribed' = FALSE
    /\ UNCHANGED <<session, user, loading, getUserCall, data, events,
                   lastEvent>>
    /\ UNCHANGED dbVars

\* ---------------------------------------------------------- specification

EmptyPolls == << >>

Init ==
    /\ polls = EmptyPolls
    /\ nextId = 0
    /\ votes = EmptyBag
    /\ inflight = EmptyBag
    /\ last = Reply(None, None, None, NoForm(None, None), None, None, None,
                    <<>>)
    /\ InitAuth

Next ==
    \/ /\ UNCHANGED authVars
       /\ \E caller \in Callers, form \in Forms : createPoll(caller, form)
    \/ /\ UNCHANGED authVars
       /\ \E caller \in Callers, id \in IdInputs : getPollById(caller, id)
    \/ /\ UNCHANGED authVars
       /\ \E caller \in Callers, id \in IdInputs, t \in Tokens :
            deletePoll(caller, id, t[1], t[2])
    \/ /\ UNCHANGED authVars
       /\ \E caller \in Callers, id \in IdInputs, form \in Forms :
            updatePoll(caller, id, form)
    \/ /\ UNCHANGED authVars
       /\ \E caller \in Callers : getUserPolls(caller)
    \/ /\ UNCHANGED authVars
       /\ \E id \in IdInputs, optionIndex \in IndexInputs :
            submitVote(None, id, optionIndex)

Spec == Init /\ [][Next]_vars

\* Voting on a store that holds one poll: the state after A's first
\* createPoll.  The owner edits and deletes the poll while votes come in.
OwnerForm == [cookie |-> "t1", field |-> "t1", question |-> "Q2",
              options |-> <<"a", "b", "c">>]

OwnerForms == {f \in Forms : CsrfCheck(f.cookie, f.field) = Ok
                             /\ ~Invalid(f.question, FilterBoolean(f.options))}

InitVotes ==
    /\ polls = <<[user_id |-> "A", question |-> OwnerForm.question,
                  options |-> OwnerForm.options]>>
    /\ nextId = 1
    /\ votes = EmptyBag
    /\ inflight = EmptyBag
    /\ last = Reply("createPoll", "A", None, OwnerForm, None, Ok, None,
                    <<"cookies", "getUser", "insert", "revalidatePath">>)
    /\ InitAuth

\* Calls overlap: any suspended submitVote may resume at any time.
NextVotes ==
    \/ /\ UNCHANGED authVars
       /\ \E caller \in Callers, id \in IdInputs, optionIndex \in IndexInputs :
            submitVote(caller, id, optionIndex)
    \/ /\ UNCHANGED authVars
       /\ \E c \in BagToSet(inflight) : submitVoteCheckExisting(c)
    \/ /\ UNCHANGED authVars
       /\ \E c \in BagToSet(inflight) : submitVoteInsert(c)
    \/ /\ UNCHANGED authVars
       /\ \E form \in OwnerForms : updatePoll("A", 1, form)
    \/ /\ UNCHANGED authVars
       /\ deletePoll("A", 1, "t1", "t1")

SpecVotes == InitVotes /\ [][NextVotes]_vars

\* Calls run one after another: a handler starts only when none is suspended.
NextSeq ==
    \/ /\ inflight = EmptyBag
       /\ UNCHANGED authVars
       /\ \E caller \in Callers, id \in IdInputs, optionIndex \in IndexInputs :
            submitVote(caller, id, optionIndex)
    \/ /\ UNCHANGED authVars
       /\ \E c \in BagToSet(inflight) : submitVoteCheckExisting(c)
    \/ /\ UNCHANGED authVars
       /\ \E c \in BagToSet(inflight) : submitVoteInsert(c)
    \/ /\ inflight = EmptyBag
       /\ UNCHANGED authVars
       /\ \E form \in OwnerForms : updatePoll("A", 1, form)
    \/ /\ inflight = EmptyBag
       /\ UNCHANGED authVars
       /\ deletePoll("A", 1, "t1", "t1")

SpecSeq == InitVotes /\ [][NextSeq]_vars

\* Calls run one after another and any backend call may fail.
NextFaults ==
    \/ NextSeq
    \/ /\ inflight = EmptyBag
       /\ UNCHANGED authVars
       /\ \E caller \in Callers, at \in FailedAt :
            \/ createPollFault(caller, OwnerForm, at)
            \/ updatePollFault(caller, 1, OwnerForm, at)
            \/ deletePollFault(caller, 1, "t1", "t1", at)
            \/ getUserPollsFault(caller, at)
            \/ \E id \in IdInputs : getPollByIdFault(caller, id, at)
            \/ \E id \in IdInputs, optionIndex \in IndexInputs :
                    submitVoteFault(caller, id, optionIndex, at)
    \/ /\ UNCHANGED authVars
       /\ \E c \in BagToSet(inflight) : submitVoteCheckExistingFault(c)
    \/ /\ UNCHANGED authVars
       /\ \E c \in BagToSet(inflight) : submitVoteInsertFault(c)

SpecFaults == InitVotes /\ [][NextFaults]_vars

\* The AuthProvider alone: the effect, the answer to its getUser call, the
\* listener's events and the cleanup, in any order the runtime allows.
NextAuth ==
    \/ useEffect
    \/ \E u \in Users \cup {None} : getUserServed(u)
    \/ getUser
    \/ \E s \in Sessions \cup {None} : onAuthStateChange(s)
    \/ cleanup

SpecAuth == Init /\ [][NextAuth]_vars

\* ------------------------------------------------------------------ claims

CsrfFailures == {InvalidCsrf, CsrfFailed}

\* The cookie store answered, and a token is missing or the two differ.
MissingOrMismatched(form) ==
    /\ form.cookie # Unavailable
    /\ (form.cookie = None \/ form.field = None \/ form.cookie # form.field)

\* The cookie store answered with a token and the form echoes it.
TokensAgree(form) ==
    /\ form.cookie \notin {None, Unavailable}
    /\ form.field = form.cookie

NonEmptyEntries(options) == {i \in DOMAIN options : options[i] # ""}

\* C1: an updatePoll or deletePoll call leaves every poll owned by an
\* identity other than the caller in the store, with its question, options
\* and owner as they were.
OnlyOwnerChangesPoll ==
    [][\A p \in DOMAIN polls :
          (/\ last'.op \in {"updatePoll", "deletePoll"}
           /\ last'.caller # polls[p].user_id)
          => (p \in DOMAIN polls' /\ polls'[p] = polls[p])]_vars

\* A non-owner's well-formed updatePoll or deletePoll on an existing poll has
\* run its storage call and the poll is still there.
ForeignMutationAttempted ==
    /\ last.op \in {"updatePoll", "deletePoll"}
    /\ last.caller \in Users
    /\ last.result = Ok
    /\ last.id \in DOMAIN polls
    /\ polls[last.id].user_id # last.caller

\* C3: createPoll and updatePoll with a missing cookie token, a missing field
\* token or two different tokens return the CSRF failure, call neither the
\* identity lookup nor the storage, and leave polls and votes as they were.
CsrfFailClosed ==
    [][(/\ last'.op \in {"createPoll", "updatePoll"}
        /\ MissingOrMismatched(last'.form))
       => (/\ last'.result = InvalidCsrf
           /\ last'.calls = <<"cookies">>
           /\ UNCHANGED <<polls, nextId, votes>>)]_vars

\* The owner's otherwise valid updatePoll with two different tokens was
\* refused.
CsrfMismatchRefused ==
    /\ last.op = "updatePoll"
    /\ last.form.cookie = "t1" /\ last.form.field = "t2"
    /\ last.form.question = "Q1" /\ last.form.options = <<"a", "b">>
    /\ last.id \in DOMAIN polls /\ polls[last.id].user_id = last.caller
    /\ last.result = InvalidCsrf

\* C4: a deletePoll request whose csrfToken is missing or differs from the
\* cookie returns a CSRF failure and deletes nothing.
DeleteRequiresCsrf ==
    [][(/\ last'.op = "deletePoll"
        /\ ~TokensAgree(last'.form))
       => (/\ last'.result \in CsrfFailures
           /\ UNCHANGED polls)]_vars

\* C5: getPollById by an identity on another identity's poll returns no poll
\* data and the same result as on an id that belongs to no poll; and the
\* handler returns that result.
ForeignIndistinguishable ==
    /\ \A b \in Users, f \in IdInputs, n \in IdInputs :
          (/\ f \in DOMAIN polls /\ polls[f].user_id # b
           /\ n \notin DOMAIN polls)
          => (/\ GetPollByIdResult(b, f).poll = None
              /\ GetPollByIdResult(b, f) = GetPollByIdResult(b, n))
    /\ (last.op = "getPollById" /\ last.caller \in Users)
          => (/\ [poll |-> last.poll, error |-> last.result]
                    = GetPollByIdResult(last.caller, last.id)
              /\ (last.id \in DOMAIN polls
                  /\ polls[last.id].user_id # last.caller)
                    => (last.poll = None /\ last.result = SingleRowError)
              /\ last.id \notin DOMAIN polls
                    => (last.poll = None /\ last.result = SingleRowError))

\* getPollById has answered an identity that asked for another's poll.
ForeignPollRequested ==
    /\ last.op = "getPollById"
    /\ last.caller \in Users
    /\ last.id \in DOMAIN polls
    /\ polls[last.id].user_id # last.caller

\* C6: an updatePoll or deletePoll by an identity that owns no poll of the
\* given id does not return success.
ZeroRowsIsNotFound ==
    [][(/\ last'.op \in {"updatePoll", "deletePoll"}
        /\ last'.caller \in Users
        /\ ~ \E p \in DOMAIN polls :
                p = last'.id /\ polls[p].user_id = last'.caller)
       => last'.result # Ok]_vars

VoteCount(pollId, voter) ==
    LET rows == {v \in BagToSet(votes) :
                    v.poll_id = pollId /\ v.user_id = voter}
    IN  Sum([v \in rows |-> CopiesIn(v, votes)], rows)

\* C2: the vote store never holds two votes of the same voter on the same
\* poll, however submitVote calls overlap.
AtMostOneVotePerVoter ==
    \A id \in IdInputs, u \in Users : VoteCount(id, u) <= 1

\* C7: a vote inserted for a stored poll has an optionIndex within the
\* poll's options as stored when it is inserted, whatever updatePoll calls
\* of the owner overlap with submitVote.
InsertedIndexInBounds ==
    [][\A r \in BagToSet(votes' (-) votes) :
          r.poll_id \in DOMAIN polls
          => (/\ 0 <= r.option_index
              /\ r.option_index < Len(polls[r.poll_id].options))]_vars

\* C8: with calls one after another, a vote is inserted only for an
\* optionIndex from 0 to n-1 of the poll's n options, and a submitVote of an
\* identity on an existing poll with any other optionIndex returns the
\* invalid-option error and leaves the votes as they were.
VoteBounds ==
    [][/\ \A r \in BagToSet(votes' (-) votes) :
            /\ r.poll_id \in DOMAIN polls
            /\ r.option_index \in 0..(Len(polls[r.poll_id].options) - 1)
       /\ (/\ last'.op = "submitVote"
           /\ last'.caller \in Users
           /\ last'.id \in DOMAIN polls
           /\ last'.optionIndex \notin
                 0..(Len(polls[last'.id].options) - 1))
          => (last'.result = InvalidOption /\ votes' = votes)]_vars

\* submitVote with optionIndex = n on a poll of n options was refused.
IndexNRefused ==
    /\ last.op = "submitVote"
    /\ last.caller \in Users
    /\ last.id \in DOMAIN polls
    /\ last.optionIndex = Len(polls[last.id].options)
    /\ last.result = InvalidOption

HasVoted(pollId, voter) == VoteCount(pollId, voter) >= 1

\* C9: with calls one after another, once an identity has a vote on a poll
\* none of its later submitVote calls on that poll reaches the insert: the
\* call that passed the bounds check ends with the already-voted error, and
\* the identity keeps exactly one vote on the poll.
SecondVoteIsDuplicate ==
    /\ [](\A id \in IdInputs, u \in Users : VoteCount(id, u) <= 1)
    /\ [](\A c \in BagToSet(inflight) :
            HasVoted(c.poll_id, c.user_id) => c.pc = "checkExisting")
    /\ [][\A c \in BagToSet(inflight) :
            (/\ HasVoted(c.poll_id, c.user_id)
             /\ inflight' = inflight (-) SetToBag({c}))
            => (/\ last'.op = "submitVote"
                /\ last'.caller = c.user_id /\ last'.id = c.poll_id
                /\ last'.optionIndex = c.option_index
                /\ last'.result = AlreadyVoted
                /\ votes' = votes)]_vars

\* A second submitVote of an identity that has voted was refused as a
\* duplicate, and its one vote is still the only one.
DuplicateRefused ==
    /\ last.op = "submitVote"
    /\ last.result = AlreadyVoted
    /\ VoteCount(last.id, last.caller) = 1
    /\ last.id \in DOMAIN polls
    /\ ~OutOfBounds(last.optionIndex, polls[last.id].options)

\* The i-th non-empty entry of the supplied options.
NthNonEmpty(options, i) ==
    LET ne == NonEmptyEntries(options)
    IN  options[CHOOSE j \in ne : Cardinality({k \in ne : k <= j}) = i]

NonEmptyInOrder(options) ==
    [i \in 1..Cardinality(NonEmptyEntries(options)) |-> NthNonEmpty(options, i)]

\* C11: every stored poll has a non-empty question and at least two options,
\* none of them empty; a poll enters the store owned by the createPoll caller
\* and no step changes the owner of a stored poll.
StoredPollsWellFormed ==
    /\ [](\A p \in DOMAIN polls :
            /\ polls[p].question # ""
            /\ Len(polls[p].options) >= 2
            /\ \A i \in DOMAIN polls[p].options : polls[p].options[i] # ""
            /\ polls[p].user_id \in Users)
    /\ [][\A p \in DOMAIN polls' :
            IF p \in DOMAIN polls
            THEN polls'[p].user_id = polls[p].user_id
            ELSE /\ last'.op = "createPoll"
                 /\ polls'[p].user_id = last'.caller]_vars

\* The owner has replaced the question and options of a stored poll, from a
\* form with an empty entry among its options.
OwnerUpdatedPoll ==
    /\ last.op = "updatePoll"
    /\ last.result = Ok
    /\ last.id \in DOMAIN polls
    /\ polls[last.id].user_id = last.caller
    /\ last.form.options = <<"a", "", "b">>
    /\ polls[last.id].options = <<"a", "b">>

Unauthenticated == {LoginToCreate, LoginToUpdate, LoginToVote, NotAuthenticated}

MutatingOps == {"createPoll", "updatePoll", "deletePoll", "submitVote"}

\* C13 as stated: createPoll, updatePoll, deletePoll and submitVote with no
\* identity return an unauthenticated error and leave polls and votes as they
\* were, whatever the other inputs.
AnonymousIsUnauthenticated ==
    [][(last'.op \in MutatingOps /\ last'.caller = None)
       => (/\ last'.result \in Unauthenticated
           /\ UNCHANGED <<polls, nextId, votes>>)]_vars

\* C13 amended: with no identity the four operations leave polls and votes
\* as they were, whatever the inputs; deletePoll and submitVote return the
\* unauthenticated error whatever the inputs, createPoll and updatePoll
\* return it when the tokens are in order, the question is non-empty and at
\* least two non-empty options are supplied.
AnonymousChangesNothing ==
    [][(last'.op \in MutatingOps /\ last'.caller = None)
       => (/\ UNCHANGED <<polls, nextId, votes>>
           /\ last'.result # Ok
           /\ last'.op \in {"deletePoll", "submitVote"}
                => last'.result \in Unauthenticated
           /\ (/\ last'.op \in {"createPoll", "updatePoll"}
               /\ TokensAgree(last'.form)
               /\ last'.form.question # ""
               /\ Cardinality(NonEmptyEntries(last'.form.options)) >= 2)
                => last'.result \in Unauthenticated)]_vars

\* An anonymous deletePoll on a stored poll was refused.
AnonymousDeleteRefused ==
    /\ last.op = "deletePoll"
    /\ last.caller = None
    /\ last.id \in DOMAIN polls
    /\ last.result = NotAuthenticated

\* C15: getUserPolls by an identity returns exactly the stored polls that
\* identity owns, each once and as stored, the later created first.
CallerSeesOwnPolls ==
    (last.op = "getUserPolls" /\ last.caller \in Users)
    => LET l == last.poll
       IN  /\ last.result = Ok
           /\ {l[i].id : i \in DOMAIN l}
                = {p \in DOMAIN polls : polls[p].user_id = last.caller}
           /\ \A i \in DOMAIN l : l[i].row = polls[l[i].id]
           /\ \A i, j \in DOMAIN l :
                i < j => created_at(l[i].id) > created_at(l[j].id)

\* getUserPolls has returned two polls of the caller.
TwoOwnPollsListed ==
    /\ last.op = "getUserPolls"
    /\ last.caller \in Users
    /\ Len(last.poll) = 2

\* C16 as stated: getUserPolls with no identity returns an empty sequence
\* and no error.
AnonymousListIsEmptyNoError ==
    (last.op = "getUserPolls" /\ last.caller = None)
    => (last.poll = <<>> /\ last.result = Ok)

\* C16 amended: getUserPolls with no identity returns an empty sequence
\* together with the error "Not authenticated", and queries no table.
AnonymousListIsEmptyWithError ==
    (last.op = "getUserPolls" /\ last.caller = None)
    => (/\ last.poll = <<>>
        /\ last.result = NotAuthenticated
        /\ last.calls = <<"getUser">>)

\* getUserPolls with no identity has answered while polls are stored.
AnonymousListed ==
    /\ last.op = "getUserPolls"
    /\ last.caller = None
    /\ DOMAIN polls # {}

\* C17: the owner's successful deletePoll removes the poll, and from then on
\* the poll stays out of the store: getPollById with its id returns no poll
\* and the no-row error, and getUserPolls does not list it.
DeletedStaysGone ==
    [][/\ (/\ last'.op = "deletePoll"
           /\ last'.result = Ok
           /\ last'.id \in DOMAIN polls
           /\ polls[last'.id].user_id = last'.caller)
          => last'.id \notin DOMAIN polls'
       /\ \A p \in 1..nextId :
            p \notin DOMAIN polls
            => (/\ p \notin DOMAIN polls'
                /\ (/\ last'.op = "getPollById"
                    /\ last'.caller \in Users
                    /\ last'.id = p)
                   => (last'.poll = None /\ last'.result = SingleRowError)
                /\ last'.op = "getUserPolls"
                   => \A i \in DOMAIN last'.poll : last'.poll[i].id # p)]_vars

\* getPollById has been asked for a poll that was created and deleted.
DeletedPollRequested ==
    /\ last.op = "getPollById"
    /\ last.caller \in Users
    /\ last.id \in 1..nextId
    /\ last.id \notin DOMAIN polls
    /\ last.result = SingleRowError

\* C19: when reading the cookies throws, createPoll and updatePoll return the
\* CSRF failure, look up no identity, make no storage call and leave polls
\* and votes as they were.
CookieStoreFailClosed ==
    [][(/\ last'.op \in {"createPoll", "updatePoll"}
        /\ last'.form.cookie = Unavailable)
       => (/\ last'.result = CsrfFailed
           /\ last'.calls = <<"cookies">>
           /\ UNCHANGED <<polls, nextId, votes>>)]_vars

\* An identity's createPoll with a valid question and options was refused
\* because the cookies could not be read.
CookieStoreDownRefused ==
    /\ last.op = "createPoll"
    /\ last.caller \in Users
    /\ last.form.cookie = Unavailable
    /\ last.form.question = "Q1" /\ last.form.options = <<"a", "b">>
    /\ last.result = CsrfFailed

\* C18: with calls one after another, submitVote by any identity, the poll's
\* owner or not, on an existing poll with an index in range ends in success
\* or, when the identity had voted, in the already-voted error; the call that
\* succeeds has inserted exactly one vote row, made of the poll id, the
\* caller and the index, and no step of it reads a CSRF token.
AnyIdentityVotes ==
    /\ []((/\ last.op = "submitVote"
           /\ last.caller \in Users
           /\ last.id \in DOMAIN polls
           /\ ~OutOfBounds(last.optionIndex, polls[last.id].options))
          => (/\ last.result \in {Ok, AlreadyVoted}
              /\ VoteCount(last.id, last.caller) = 1
              /\ \A i \in DOMAIN last.calls : last.calls[i] # "cookies"))
    /\ [][votes' # votes
          => (/\ last'.op = "submitVote"
              /\ last'.result = Ok
              /\ last'.caller \in Users
              /\ last'.form = NoForm(None, None)
              /\ VoteCount(last'.id, last'.caller) = 0
              /\ votes' = votes (+) SetToBag({
                    [poll_id |-> last'.id, user_id |-> last'.caller,
                     option_index |-> last'.optionIndex]}))]_vars

\* The owner A and the other identity B have both voted on A's poll.
OwnerAndOtherVoted ==
    /\ last.op = "submitVote"
    /\ last.result = Ok
    /\ 1 \in DOMAIN polls
    /\ polls[1].user_id = "A"
    /\ VoteCount(1, "A") = 1
    /\ VoteCount(1, "B") = 1

\* C20: with calls one after another, submitVote answers with the first
\* failing check in the order no identity, no such poll, index out of range,
\* already voted: no identity gives the login error whatever the poll and
\* index are; an identity and an absent poll give the no-row error; an
\* existing poll and an index out of range give the invalid-option error even
\* when the identity has voted; only then the already-voted error.
VoteCheckOrder ==
    last.op = "submitVote"
    => /\ last.caller = None => last.result = LoginToVote
       /\ (last.caller \in Users /\ last.id \notin DOMAIN polls)
          => last.result = SingleRowError
       /\ (/\ last.caller \in Users
           /\ last.id \in DOMAIN polls
           /\ OutOfBounds(last.optionIndex, polls[last.id].options))
          => last.result = InvalidOption
       /\ (/\ last.caller \in Users
           /\ last.id \in DOMAIN polls
           /\ ~OutOfBounds(last.optionIndex, polls[last.id].options)
           /\ last.result # Ok)
          => (/\ last.result = AlreadyVoted
              /\ HasVoted(last.id, last.caller))

\* An identity that has voted on the poll asked for an index out of range
\* and got the invalid-option error.
VotedThenOutOfRange ==
    /\ last.op = "submitVote"
    /\ last.caller \in Users
    /\ last.id \in DOMAIN polls
    /\ HasVoted(last.id, last.caller)
    /\ OutOfBounds(last.optionIndex, polls[last.id].options)
    /\ last.result = InvalidOption

\* C14: when the identity lookup or a storage call fails, no operation
\* returns the failed call's error message to the caller.
NoRawBackendText == last.result # ErrorMessage

\* C21: revalidatePath is called by every createPoll that stored a poll and
\* every deletePoll that removed one, and by no createPoll or deletePoll
\* that stored or removed nothing.
InvalidationIffListingChanged ==
    [][last'.op \in {"createPoll", "deletePoll"}
       => ((\E i \in DOMAIN last'.calls : last'.calls[i] = "revalidatePath")
           <=> polls' # polls)]_vars

\* C23: every stored vote references a stored poll.
VotesReferenceStoredPolls ==
    \A v \in BagToSet(votes) : v.poll_id \in DOMAIN polls

\* C22: loading is true until the effect's getUser call completes; it
\* changes only from true to false, only in the step that completes getUser
\* and only when the provider is mounted; a listener event leaves it alone.
LoadingEndsWithGetUser ==
    /\ [](getUserCall # "done" => loading)
    /\ [][/\ loading' # loading
             => (/\ loading /\ ~loading'
                 /\ getUserCall = "served" /\ getUserCall' = "done"
                 /\ mounted)
          /\ events' # events => loading' = loading]_vars

\* getUser completed on a mounted provider after the listener had been
\* given an event, and loading is false.
LoadingEndedAfterEvent ==
    /\ events >= 1
    /\ getUserCall = "done"
    /\ mounted
    /\ ~loading

\* C24: once the listener has been given an event, user and session are
\* those of the most recent event, also after getUser completes.
StateFollowsLastEvent ==
    events >= 1 => (session = lastEvent /\ user = SessionUser(lastEvent))

====
